---- MODULE Spec2Model ----
(***************************************************************************)
(* Event capture and work-session derivation pipeline of time-trace:       *)
(* EventFilter, EventQueue, EventManager and the work-time calculators,    *)
(* modelled from src/backend/*.py.                                         *)
(***************************************************************************)
EXTENDS Integers, Sequences, FiniteSets, TLC

\* Python's None, for a kind and for a timestamp (timestamps are never negative)
None == "None"
NoTime == -1

\* models.py: class EventType
EventType == {"lock", "unlock", "shutdown", "startup", "suspend", "resume"}

(***************************************************************************)
(* Bounds of the model                                                     *)
(***************************************************************************)
\* saturation of the count of feeds since the last accepted envelope of a kind
MaxBetween == 1

\* event timestamps (seconds) fed to the filter: differences below, at and
\* above both default intervals, and the two minutes of the 12:00/12:02 case
FilterTimes == {0, 4, 5, 10, 120}

\* the kinds one run feeds to the filter (every kind is in some pair)
FedKindSets == { {"lock", "unlock"}, {"lock", "startup"}, {"suspend", "resume"},
                 {"shutdown", "unlock"} }

VARIABLES
    \* ---- EventFilter (event_processor.py) ----
    enabled_events,     \* set of enabled kinds
    min_interval,       \* dict kind -> seconds (a function on the configured kinds)
    last_event_time,    \* dict kind -> time of the last accepted envelope
    \* ---- history of the filter's calls (not program state) ----
    fedKinds,           \* the kinds this run feeds
    fcall,              \* the last should_process call and what it returned
    lastAccepted,       \* kind -> time of the last envelope should_process returned True for
    between,            \* kind -> feeds since that envelope (saturating)
    \* ---- WorkTimeCalculator (event_processor.py) ----
    session_start,      \* Optional[datetime]
    last_activity,      \* Optional[datetime]
    lock_time,          \* Optional[datetime]
    total_lock_duration,\* seconds
    \* ---- time_records table behind time_record_dao (dao.py) ----
    time_records,       \* date -> stored record, or NoRecord
    \* ---- history of the calculator (not program state) ----
    summary,            \* what the session close of the last step computed and which DAO calls it made
    nLocks,             \* Lock envelopes handled so far
    nCloses,            \* sessions closed so far
    machine,            \* state of the session state machine the fed events follow
    clock,              \* timestamp of the last event fed in timestamp order
    hist,               \* the shape of the events handled since the last Startup
    \* ---- EnhancedWorkTimeCalculator (work_time_calculator.py) ----
    work_mode,          \* EnhancedWorkTimeCalculator.work_mode
    enh_session_start,  \* EnhancedWorkTimeCalculator.session_start
    enh_session_end,    \* EnhancedWorkTimeCalculator.session_end
    enh_last_activity,  \* EnhancedWorkTimeCalculator.last_activity
    break_periods,      \* EnhancedWorkTimeCalculator.break_periods
    current_break,      \* index in break_periods of current_break (0: None)
    result,             \* what the last call returned, if it was end_work_session
    last_op,            \* the last call and what it met
    enh_calls,          \* calls of the calculator so far
    \* ---- EventQueue (event_listener.py) ----
    queue,              \* EventQueue._queue, oldest first
    processing,         \* EventQueue._processing
    stop_event,         \* EventQueue._stop_event
    processor_thread,   \* EventQueue._processor_thread (0: None)
    thr,                \* the consumer threads: position in _process_events, batch, processor
    joining,            \* the caller of stop_processing is waiting in join(timeout=5.0)
    warnings,           \* "queue full" warnings logged by put
    \* ---- EventManager and its listeners (event_listener.py) ----
    handle_event_attr,  \* what event_manager._handle_event is bound to
    listeners,          \* EventManager.listeners (the registered names)
    callbacks,          \* listener -> times _on_event_received is in its callbacks
    listener_running,   \* listener -> EventListener.is_running
    manager_running,    \* EventManager.is_running
    system_events,      \* ids of the envelopes stored by system_event_dao.create
    \* ---- history of the pipeline (not program state) ----
    nextId,             \* envelopes created so far + 1
    handed,             \* ids in the order the consumers passed them to the processor
    offered,            \* per envelope id: the source that created it
    accepted,           \* ids should_process returned True for
    afterInstall,       \* ids dequeued after the enhanced processor was installed
    faulted,            \* ids whose handling raised an exception in some component
    burst,              \* puts since the queue was last seen full with no get in between
    \* ---- one EventListener and its threads (event_listener.py) ----
    l_is_running,       \* EventListener.is_running
    l_stop_event,       \* EventListener._stop_event
    l_thread,           \* EventListener._thread (0: None)
    l_thr,              \* the threads started with target _run: position in _run
    l_joining,          \* the caller of stop is waiting in join(timeout=5.0)
    l_emitted,          \* envelopes the listener's threads passed to _notify_callbacks
    \* ---- MultiPlatformEventListener and the listener it wraps ----
    n_is_running,       \* MultiPlatformEventListener.is_running
    n_platform_listener,\* class of MultiPlatformEventListener.platform_listener, or None
    n_pc,               \* position of the wrapped listener's thread in its _run
    n_registered,       \* WTSRegisterSessionNotification succeeded for the window
    n_out,              \* kinds passed to _notify_callbacks, oldest first
    n_since,            \* Len(n_out) when start was last called
    n_fail,             \* the set-up step that failed since start was last called
    n_proc,             \* the last _window_proc call and what it returned
    \* ---- EventService and its monitor thread (event_service.py) ----
    s_is_running,       \* EventService.is_running
    s_stop_event,       \* EventService._stop_event
    s_monitor_thread,   \* EventService._monitor_thread (0: None)
    s_thr,              \* the threads started with target _monitor_loop: position
    s_start,            \* position of the caller inside EventService.start
    s_checks            \* passes of the monitor loop's body so far

filterVars == <<enabled_events, min_interval, last_event_time>>
filterHist == <<fedKinds, fcall, lastAccepted, between>>
calcVars == <<session_start, last_activity, lock_time, total_lock_duration>>
calcHist == <<summary, nLocks, nCloses>>
feedHist == <<machine, clock>>
enhVars == <<work_mode, enh_session_start, enh_session_end, enh_last_activity,
             break_periods, current_break>>
enhHist == <<result, last_op, enh_calls>>
listenerVars == <<l_is_running, l_stop_event, l_thread, l_thr, l_joining, l_emitted>>
nativeVars == <<n_is_running, n_platform_listener, n_pc, n_registered, n_out, n_since,
                n_fail, n_proc>>
serviceVars == <<s_is_running, s_stop_event, s_monitor_thread, s_thr, s_start, s_checks>>
queueVars == <<queue, processing, stop_event, processor_thread, thr, joining, warnings>>
managerVars == <<handle_event_attr, listeners, callbacks, listener_running, manager_running,
                 system_events>>
pipeHist == <<nextId, handed, offered, accepted, afterInstall, faulted, burst>>

(***************************************************************************)
(* EventFilter                                                             *)
(***************************************************************************)
\* dict.get(key): None when the key is absent
DictGet(d, k) == IF k \in DOMAIN d THEN d[k] ELSE NoTime

\* d[k] = v
DictSet(d, k, v) == [x \in DOMAIN d \cup {k} |-> IF x = k THEN v ELSE d[x]]

EmptyDict == [x \in {} |-> NoTime]

\* EnhancedEventProcessor._setup_default_filters
LockInterval == 5
SuspendInterval == 10
DefaultIntervals ==
    [k \in {"lock", "unlock", "suspend", "resume"} |->
        IF k \in {"lock", "unlock"} THEN LockInterval ELSE SuspendInterval]

\* the interval maps a run may be configured with (EventService._load_config
\* overrides the defaults from "event.min_intervals")
IntervalConfigs ==
    { DefaultIntervals,
      EmptyDict,
      [k \in {"lock", "startup"} |-> IF k = "lock" THEN SuspendInterval ELSE LockInterval] }

\* the enabled sets a run may be configured with ("event.enabled_types")
EnabledConfigs == { EventType, EventType \ {"lock"}, {"lock", "unlock"} }

\* mutant: the interval test rejects an envelope exactly at the interval
should_process_le(enabled, intervals, last, e) ==
    IF e.event_type \notin enabled THEN FALSE
    ELSE IF /\ e.event_type \in DOMAIN intervals
            /\ DictGet(last, e.event_type) # NoTime
            /\ e.event_time - last[e.event_type] <= intervals[e.event_type]
         THEN FALSE
         ELSE TRUE

\* EventFilter.should_process: the value returned
should_process(enabled, intervals, last, e) ==
    IF e.event_type \notin enabled THEN FALSE
    ELSE IF /\ e.event_type \in DOMAIN intervals
            /\ DictGet(last, e.event_type) # NoTime
            /\ e.event_time - last[e.event_type] < intervals[e.event_type]
         THEN FALSE
         ELSE TRUE

\* mutant: last_event_time is not written on acceptance
last_event_time_unwritten(last, e, ok) == last

\* mutant: last_event_time is written for every enabled envelope, accepted or not
last_event_time_always(last, e, ok) ==
    IF e.event_type \in enabled_events
    THEN DictSet(last, e.event_type, e.event_time) ELSE last

\* EventFilter.should_process: last_event_time after the call
last_event_time_after(last, e, ok) ==
    IF ok THEN DictSet(last, e.event_type, e.event_time) ELSE last

\* one call of should_process on envelope e; `again` tells that e is the
\* envelope of the previous call
FilterCall(e, again) ==
    LET ok == should_process(enabled_events, min_interval, last_event_time, e)
        k == e.event_type
    IN  /\ last_event_time' = last_event_time_after(last_event_time, e, ok)
        /\ fcall' = [ event_type |-> k, event_time |-> e.event_time, result |-> ok,
                      prior  |-> DictGet(lastAccepted, k),
                      gap    |-> between[k],
                      again  |-> again,
                      first  |-> IF again THEN fcall.result ELSE FALSE,
                      firstPrior |-> IF again THEN fcall.prior ELSE NoTime,
                      firstEnabled |-> IF again THEN fcall.enabled ELSE FALSE,
                      enabled |-> k \in enabled_events ]
        /\ lastAccepted' = IF ok THEN DictSet(lastAccepted, k, e.event_time)
                           ELSE lastAccepted
        /\ between' = [x \in fedKinds |->
                          IF x = k /\ ok THEN 0
                          ELSE IF between[x] < MaxBetween THEN between[x] + 1
                          ELSE between[x]]
        /\ UNCHANGED <<enabled_events, min_interval, fedKinds>>

NoCall == [ event_type |-> None, event_time |-> 0, result |-> FALSE, prior |-> NoTime,
            gap |-> 0, again |-> FALSE, first |-> FALSE, firstPrior |-> NoTime,
            firstEnabled |-> FALSE, enabled |-> FALSE ]

FilterInit ==
    /\ enabled_events = EventType
    /\ min_interval \in IntervalConfigs
    /\ last_event_time = EmptyDict
    /\ fedKinds \in FedKindSets
    /\ fcall = NoCall
    /\ lastAccepted = EmptyDict
    /\ between = [x \in fedKinds |-> 0]

\* a new envelope reaches the filter
Feed ==
    \E k \in fedKinds, t \in FilterTimes :
        FilterCall([event_type |-> k, event_time |-> t], FALSE)

\* the envelope of the previous call is fed once more
FeedAgain ==
    /\ fcall.event_type # None
    /\ FilterCall([event_type |-> fcall.event_type, event_time |-> fcall.event_time], TRUE)

\* EventFilter.set_enabled_events (EventService.reload_config)
set_enabled_events ==
    /\ \E S \in EnabledConfigs : enabled_events' = S
    /\ enabled_events' # enabled_events
    /\ UNCHANGED <<min_interval, last_event_time, filterHist>>

(***************************************************************************)
(* time_record_dao and WorkTimeCalculator                                  *)
(***************************************************************************)
\* int(x / d) of Python: truncation toward zero
TruncDiv(x, d) == IF x >= 0 THEN x \div d ELSE -((-x) \div d)

Max(a, b) == IF a >= b THEN a ELSE b
Min(a, b) == IF a <= b THEN a ELSE b

SecondsPerMinute == 60
SecondsPerDay == 86400

\* datetime.date()
DateOf(t) == t \div SecondsPerDay

NoRecord == [exists |-> FALSE]

\* TimeRecordBase.calculate_duration: 8 hours in minutes
StandardMinutes == 480

\* TimeRecordBase.calculate_duration, as TimeRecordDAO.create runs it on the
\* record before the INSERT
calculate_duration(rec) ==
    LET total_minutes == TruncDiv(rec.clock_out - rec.clock_in, SecondsPerMinute)
        work_duration == Max(0, total_minutes - rec.break_duration)
    IN  [rec EXCEPT !.duration = work_duration,
                    !.overtime_duration =
                        IF work_duration > StandardMinutes
                        THEN work_duration - StandardMinutes ELSE 0]

\* TimeRecordDAO.create: the table after the INSERT
dao_create(table, rec) ==
    [table EXCEPT ![rec.date] = calculate_duration(rec)]

\* TimeRecordDAO.update with a TimeRecordUpdate(clock_out, notes): the table
\* after the UPDATE
dao_update_clock_out(table, d, clock_out) ==
    [table EXCEPT ![d].clock_out = clock_out]

NoSummary == [closed |-> FALSE, session_minutes |-> 0, work_minutes |-> 0,
              break_minutes |-> 0, calls |-> <<>>, attempts |-> <<>>,
              end_time |-> NoTime,
              open_lock |-> NoTime]

\* mutant: the lock time accumulated before this session is subtracted twice
work_duration_twice(total_duration, lock_duration) ==
    Max(0, total_duration - 2 * lock_duration)

\* WorkTimeCalculator._save_work_session: work_duration
work_duration_of(total_duration, lock_duration) ==
    Max(0, total_duration - lock_duration)

\* WorkTimeCalculator._save_work_session(end_time); db_ok tells whether the
\* create or update call succeeds (an exception is caught and logged)
save_work_session(end_time, db_ok) ==
    LET total_duration == end_time - session_start
        work_duration == work_duration_of(total_duration, total_lock_duration)
        work_date == DateOf(session_start)
        existing == time_records[work_date]
        duration == TruncDiv(work_duration, SecondsPerMinute)
        break_duration == TruncDiv(total_lock_duration, SecondsPerMinute)
        \* TimeRecordCreate validates duration >= 0 and break_duration >= 0
        valid == duration >= 0 /\ break_duration >= 0
        rec == [exists |-> TRUE, date |-> work_date, clock_in |-> session_start,
                clock_out |-> end_time, duration |-> duration,
                break_duration |-> break_duration, overtime_duration |-> 0]
        \* the DAO call made, if any, and the one that succeeded
        attempt == IF existing.exists THEN <<"update">>
                   ELSE IF valid THEN <<"create">> ELSE <<>>
        call == IF db_ok THEN attempt ELSE <<>>
    IN  /\ time_records' =
              IF call = <<"update">> THEN dao_update_clock_out(time_records, work_date, end_time)
              ELSE IF call = <<"create">> THEN dao_create(time_records, rec)
              ELSE time_records
        /\ summary' = [closed |-> TRUE,
                       session_minutes |-> TruncDiv(total_duration, SecondsPerMinute),
                       work_minutes |-> duration,
                       break_minutes |-> break_duration,
                       calls |-> call,
                       attempts |-> attempt,
                       end_time |-> end_time,
                       open_lock |-> lock_time]
        /\ nCloses' = nCloses + 1

\* WorkTimeCalculator._handle_startup, then handle_event's last_activity update
handle_startup(event_time) ==
    /\ session_start' = event_time
    /\ last_activity' = event_time
    /\ lock_time' = NoTime
    /\ summary' = NoSummary
    /\ UNCHANGED <<total_lock_duration, time_records, nLocks, nCloses>>

\* WorkTimeCalculator._handle_unlock, then handle_event's last_activity update
handle_unlock(event_time) ==
    /\ total_lock_duration' =
          IF lock_time # NoTime THEN total_lock_duration + (event_time - lock_time)
          ELSE total_lock_duration
    /\ lock_time' = NoTime
    /\ last_activity' = event_time
    /\ summary' = NoSummary
    /\ UNCHANGED <<session_start, time_records, nLocks, nCloses>>

\* WorkTimeCalculator._handle_lock
handle_lock(event_time) ==
    /\ lock_time' = event_time
    /\ nLocks' = nLocks + 1
    /\ summary' = NoSummary
    /\ UNCHANGED <<session_start, last_activity, total_lock_duration, time_records,
                   nCloses>>

\* WorkTimeCalculator._reset_session
reset_session ==
    /\ session_start' = NoTime
    /\ last_activity' = NoTime
    /\ lock_time' = NoTime
    /\ total_lock_duration' = 0

\* WorkTimeCalculator._handle_shutdown
handle_shutdown(event_time, db_ok) ==
    /\ IF session_start # NoTime
       THEN save_work_session(event_time, db_ok)
       ELSE summary' = NoSummary /\ UNCHANGED <<time_records, nCloses>>
    /\ reset_session
    /\ UNCHANGED nLocks

\* WorkTimeCalculator.handle_event
handle_event(e, db_ok) ==
    CASE e.event_type = "startup"  -> handle_startup(e.event_time)
      [] e.event_type = "unlock"   -> handle_unlock(e.event_time)
      [] e.event_type = "lock"     -> handle_lock(e.event_time)
      [] e.event_type = "shutdown" -> handle_shutdown(e.event_time, db_ok)
      [] OTHER -> summary' = NoSummary
                  /\ UNCHANGED <<calcVars, time_records, nLocks, nCloses>>

\* event timestamps (seconds) fed to the calculator, all of one day: four
\* minutes, a minute and a half more, and beyond the eight standard hours
CalcTimes == {0, 240, 330, 30000}

\* Lock envelopes and session closes of one run
MaxLocks == 2
MaxCloses == 1

\* a record of the day already in the table when the process starts (left by
\* an earlier run or entered by hand)
StoredRecord ==
    [exists |-> TRUE, date |-> 0, clock_in |-> 0, clock_out |-> 240, duration |-> 4,
     break_duration |-> 0, overtime_duration |-> 0]

\* WorkTimeCalculator.__init__
CalcConstructed ==
    /\ session_start = NoTime
    /\ last_activity = NoTime
    /\ lock_time = NoTime
    /\ total_lock_duration = 0
    /\ summary = NoSummary
    /\ nLocks = 0
    /\ nCloses = 0

\* the time_records table with no row
EmptyTable == [d \in {DateOf(t) : t \in CalcTimes} |-> NoRecord]

CalcInit ==
    /\ CalcConstructed
    /\ time_records \in [{DateOf(t) : t \in CalcTimes} -> {NoRecord, StoredRecord}]

\* an accepted envelope reaches the calculator
CalcStartup ==
    \E t \in CalcTimes :
        handle_event([event_type |-> "startup", event_time |-> t], TRUE)

CalcLock ==
    /\ nLocks < MaxLocks
    /\ \E t \in CalcTimes :
        handle_event([event_type |-> "lock", event_time |-> t], TRUE)

CalcUnlock ==
    \E t \in CalcTimes :
        handle_event([event_type |-> "unlock", event_time |-> t], TRUE)

CalcShutdown ==
    \E t \in CalcTimes, db_ok \in BOOLEAN :
        handle_event([event_type |-> "shutdown", event_time |-> t], db_ok)

\* Suspend and Resume: handle_event has no branch for them
CalcSuspendResume ==
    \E k \in {"suspend", "resume"}, t \in CalcTimes :
        handle_event([event_type |-> k, event_time |-> t], TRUE)

\* history: how far the events since the last Startup follow Startup, Lock,
\* Unlock, Shutdown ("S", "SL", "SLU", "SLUD") or Startup, Shutdown ("SD"),
\* with the times of that Lock and Unlock; "none" before any Startup
NoHist == [shape |-> "none", lock |-> NoTime, unlock |-> NoTime]

HistAfter(h, k, t) ==
    CASE k = "startup" -> [shape |-> "S", lock |-> NoTime, unlock |-> NoTime]
      [] k # "startup" /\ h.shape = "none" -> h
      [] k = "lock" /\ h.shape = "S" -> [h EXCEPT !.shape = "SL", !.lock = t]
      [] k = "unlock" /\ h.shape = "SL" -> [h EXCEPT !.shape = "SLU", !.unlock = t]
      [] k = "shutdown" /\ h.shape = "SLU" -> [h EXCEPT !.shape = "SLUD"]
      [] k = "shutdown" /\ h.shape = "S" -> [h EXCEPT !.shape = "SD"]
      [] OTHER -> [shape |-> "other", lock |-> NoTime, unlock |-> NoTime]

\* The session state machine of the design (Idle, Active, OnBreak; a break
\* opened by Suspend is told apart for Resume): the state after event k, or
\* None when the machine has no transition for k
MachineStep(m, k) ==
    CASE m = "Idle" /\ k \in {"startup", "unlock"} -> "Active"
      [] m = "Active" /\ k = "lock" -> "OnBreak"
      [] m = "Active" /\ k = "suspend" -> "OnBreakSuspended"
      [] m = "OnBreak" /\ k = "unlock" -> "Active"
      [] m = "OnBreakSuspended" /\ k = "unlock" -> "Active"
      [] m = "OnBreak" /\ k = "suspend" -> "OnBreak"
      [] m = "OnBreakSuspended" /\ k = "suspend" -> "OnBreakSuspended"
      [] m = "OnBreakSuspended" /\ k = "resume" -> "Active"
      [] m # "Idle" /\ k = "shutdown" -> "Idle"
      [] m # "Idle" /\ k = "startup" -> "Active"
      [] OTHER -> None

\* an envelope that follows the state machine, stamped no earlier than the
\* envelope before it, reaches the calculator
SessionFeed ==
    \E k \in EventType, t \in CalcTimes, db_ok \in BOOLEAN :
        /\ MachineStep(machine, k) # None
        /\ t >= clock
        /\ k = "lock" => nLocks < MaxLocks
        /\ k # "shutdown" => db_ok
        /\ handle_event([event_type |-> k, event_time |-> t], db_ok)
        /\ machine' = MachineStep(machine, k)
        /\ clock' = t
        /\ hist' = HistAfter(hist, k, t)

(***************************************************************************)
(* EnhancedWorkTimeCalculator (work_time_calculator.py; the same class is  *)
(* app/utils/time_calculator.py WorkTimeCalculator)                        *)
(***************************************************************************)
WorkMode == {"standard", "flexible", "shift", "remote"}
BreakType == {"lunch", "short", "long", "meeting", "system"}

\* WorkTimeRule: standard_hours and max_daily_hours, in minutes
RuleStandardMinutes == 480
RuleMaxDailyMinutes == 720

\* break periods of one session
MaxBreaks == 2

\* BreakPeriod.duration_minutes
duration_minutes(bp) ==
    IF bp.end_time = NoTime THEN 0
    ELSE TruncDiv(bp.end_time - bp.start_time, SecondsPerMinute)

\* sum(bp.duration_minutes for bp in self.break_periods)
RECURSIVE total_break_minutes(_)
total_break_minutes(breaks) ==
    IF breaks = <<>> THEN 0
    ELSE duration_minutes(Head(breaks)) + total_break_minutes(Tail(breaks))

\* mutant: the daily maximum is applied in every mode
apply_work_mode_rules_all(mode, work_seconds) ==
    Min(work_seconds, RuleMaxDailyMinutes * SecondsPerMinute)

\* mutant: no mode has a daily maximum
apply_work_mode_rules_none(mode, work_seconds) == work_seconds

\* _apply_work_mode_rules, on seconds (the code's float minutes times 60)
apply_work_mode_rules(mode, work_seconds) ==
    IF mode \in {"flexible", "shift", "remote"} THEN work_seconds
    ELSE Min(work_seconds, RuleMaxDailyMinutes * SecondsPerMinute)

\* _calculate_work_time: the fields of the returned dict the summary is
\* made of
calculate_work_time(start, end, breaks, mode) ==
    LET total_session_seconds == end - start
        break_minutes == total_break_minutes(breaks)
        actual_work_seconds ==
            Max(0, total_session_seconds - break_minutes * SecondsPerMinute)
        work_seconds == apply_work_mode_rules(mode, actual_work_seconds)
        overtime_seconds ==
            Max(0, work_seconds - RuleStandardMinutes * SecondsPerMinute)
    IN  [total_session_minutes |-> TruncDiv(total_session_seconds, SecondsPerMinute),
         total_break_minutes |-> break_minutes,
         work_minutes |-> TruncDiv(work_seconds, SecondsPerMinute),
         overtime_minutes |-> TruncDiv(overtime_seconds, SecondsPerMinute)]

\* TimeRecordDAO.update with a TimeRecordUpdate(clock_out, break_duration,
\* notes): the table after the UPDATE
dao_update_clock_out_break(table, d, clock_out, break_duration) ==
    [table EXCEPT ![d].clock_out = clock_out, ![d].break_duration = break_duration]

\* _save_to_database: the table afterwards and the DAO call made; db_ok
\* tells whether the create or update call succeeds (an exception is
\* caught and logged)
save_to_database(table, start, end, r, db_ok) ==
    LET work_date == DateOf(start)
        existing == table[work_date]
        \* TimeRecordUpdate and TimeRecordCreate validate break_duration >= 0
        valid == r.total_break_minutes >= 0
        rec == [exists |-> TRUE, date |-> work_date, clock_in |-> start,
                clock_out |-> end, duration |-> r.work_minutes,
                break_duration |-> r.total_break_minutes,
                overtime_duration |-> r.overtime_minutes]
        \* the DAO call made, if any, and the one that succeeded
        attempt == IF ~valid THEN <<>>
                   ELSE IF existing.exists THEN <<"update">> ELSE <<"create">>
        call == IF db_ok THEN attempt ELSE <<>>
    IN  [table |-> IF call = <<"update">>
                   THEN dao_update_clock_out_break(table, work_date, end,
                                                   r.total_break_minutes)
                   ELSE IF call = <<"create">> THEN dao_create(table, rec)
                   ELSE table,
         calls |-> call,
         attempts |-> attempt]

NoResult == [closed |-> FALSE, session_minutes |-> 0, break_minutes |-> 0,
             work_minutes |-> 0, overtime_minutes |-> 0, calls |-> <<>>,
             attempts |-> <<>>]

\* mutant: end_break leaves the break open
breaks_after_end_break_open(breaks, cur, t) == breaks

\* end_break: break_periods afterwards (current_break.end_break(end_time))
breaks_after_end_break(breaks, cur, t) ==
    IF cur = 0 THEN breaks ELSE [breaks EXCEPT ![cur].end_time = t]

\* history: what the call met
Met(op, t) ==
    [op |-> op, time |-> t,
     session_before |-> enh_session_start # NoTime,
     break_before |-> current_break # 0]

\* start_work_session(start_time)
start_work_session(t) ==
    /\ enh_session_start' = t
    /\ enh_last_activity' = t
    /\ enh_session_end' = NoTime
    /\ break_periods' = <<>>
    /\ current_break' = 0
    /\ result' = NoResult
    /\ UNCHANGED <<work_mode, time_records>>

\* end_work_session(end_time)
end_work_session(t, db_ok) ==
    IF enh_session_start = NoTime
    THEN /\ result' = NoResult
         /\ UNCHANGED <<enhVars, time_records>>
    ELSE LET breaks == breaks_after_end_break(break_periods, current_break, t)
             r == calculate_work_time(enh_session_start, t, breaks, work_mode)
             saved == save_to_database(time_records, enh_session_start, t, r, db_ok)
         IN  /\ enh_session_end' = t
             /\ break_periods' = breaks
             /\ current_break' = 0
             /\ enh_last_activity' = IF current_break # 0 THEN t ELSE enh_last_activity
             /\ time_records' = saved.table
             /\ result' = [closed |-> TRUE,
                           session_minutes |-> r.total_session_minutes,
                           break_minutes |-> r.total_break_minutes,
                           work_minutes |-> r.work_minutes,
                           overtime_minutes |-> r.overtime_minutes,
                           calls |-> saved.calls,
                           attempts |-> saved.attempts]
             /\ UNCHANGED <<work_mode, enh_session_start>>

\* start_break(start_time, break_type): an active break is ended first
start_break(t, type) ==
    /\ break_periods' =
          Append(breaks_after_end_break(break_periods, current_break, t),
                 [start_time |-> t, end_time |-> NoTime, break_type |-> type])
    /\ current_break' = Len(break_periods) + 1
    /\ enh_last_activity' = IF current_break # 0 THEN t ELSE enh_last_activity
    /\ result' = NoResult
    /\ UNCHANGED <<work_mode, enh_session_start, enh_session_end, time_records>>

\* end_break(end_time)
end_break(t) ==
    /\ break_periods' = breaks_after_end_break(break_periods, current_break, t)
    /\ current_break' = 0
    /\ enh_last_activity' = IF current_break # 0 THEN t ELSE enh_last_activity
    /\ result' = NoResult
    /\ UNCHANGED <<work_mode, enh_session_start, enh_session_end, time_records>>

\* handle_system_event(event_type, event_time)
handle_system_event(k, t, db_ok) ==
    CASE k = "startup" -> start_work_session(t)
      [] k = "shutdown" -> end_work_session(t, db_ok)
      [] k = "lock" -> start_break(t, "system")
      [] k = "unlock" ->
            /\ break_periods' =
                  IF current_break # 0 /\ break_periods[current_break].break_type = "system"
                  THEN breaks_after_end_break(break_periods, current_break, t)
                  ELSE break_periods
            /\ current_break' =
                  IF current_break # 0 /\ break_periods[current_break].break_type = "system"
                  THEN 0 ELSE current_break
            /\ enh_last_activity' = t
            /\ result' = NoResult
            /\ UNCHANGED <<work_mode, enh_session_start, enh_session_end, time_records>>
      [] OTHER -> result' = NoResult /\ UNCHANGED <<enhVars, time_records>>

NoOp == [op |-> None, time |-> NoTime, session_before |-> FALSE,
         break_before |-> FALSE]

\* EnhancedWorkTimeCalculator.__init__
EnhConstructed ==
    /\ enh_session_start = NoTime
    /\ enh_session_end = NoTime
    /\ enh_last_activity = NoTime
    /\ break_periods = <<>>
    /\ current_break = 0
    /\ result = NoResult
    /\ last_op = NoOp
    /\ enh_calls = 0

\* the calculator in its default mode, never called
EnhIdle == work_mode = "standard" /\ EnhConstructed

\* event timestamps (seconds of one day), handled in any order: midnight,
\* 09:00 and 20:00
EnhTimes == {0, 32400, 72000}

\* the break types callers pass to start_break
CallerBreakTypes == {"lunch"}

\* calls of the calculator in one run
MaxCalls == 4

\* a system event reaches the calculator
EnhEvent ==
    \E k \in EventType, t \in EnhTimes, db_ok \in BOOLEAN :
        /\ k # "shutdown" => db_ok
        /\ k = "lock" => Len(break_periods) < MaxBreaks
        /\ handle_system_event(k, t, db_ok)
        /\ last_op' = Met(k, t)
        /\ enh_calls' = enh_calls + 1

\* a caller starts a break
EnhStartBreak ==
    \E type \in CallerBreakTypes, t \in EnhTimes :
        /\ Len(break_periods) < MaxBreaks
        /\ start_break(t, type)
        /\ last_op' = Met("start_break", t)
        /\ enh_calls' = enh_calls + 1

\* a caller ends the break
EnhEndBreak ==
    \E t \in EnhTimes :
        /\ end_break(t)
        /\ last_op' = Met("end_break", t)
        /\ enh_calls' = enh_calls + 1

\* a caller ends the session
EnhEndWorkSession ==
    \E t \in EnhTimes, db_ok \in BOOLEAN :
        /\ end_work_session(t, db_ok)
        /\ last_op' = Met("end_work_session", t)
        /\ enh_calls' = enh_calls + 1

(***************************************************************************)
(* EventQueue, its consumer thread, EventManager and the listeners         *)
(***************************************************************************)
pipeVars == <<queueVars, managerVars, pipeHist>>

\* capacity of the queue (max_size, 1000 in EventManager) and the batch
\* limit of _process_events (10), scaled to the envelopes of one run
MaxSize == 2
BatchSize == 2
\* envelopes the sources emit in one run, envelopes put by the callers of
\* the queue's own interface
MaxEmit == 3
MaxPut == 4
\* how often the manager's callback is registered with one listener
CallbackCounts == {0, 1, 2}

\* the listeners callers register themselves, and the platform listener
\* EventService.start creates
CallerListeners == {"s1"}
ServiceListener == "platform"
Sources == CallerListeners \cup {ServiceListener}
ThreadIds == {1, 2}

\* the kinds the sources of this model emit
PipelineKinds == {"lock", "unlock"}

NoThread == [pc |-> "none", batch |-> <<>>, cur |-> 0, processor |-> "none"]

\* mutant: a put on a full queue makes room by discarding the oldest envelope
queue_after_put_drop_oldest(q, e) ==
    IF Len(q) < MaxSize THEN Append(q, e) ELSE Append(Tail(q), e)

\* EventQueue.put: the queue after put_nowait (queue.Full leaves it as it is)
queue_after_put(q, e) ==
    IF Len(q) < MaxSize THEN Append(q, e) ELSE q

\* EventQueue.put: the warnings logged after the call
warnings_after_put(q, w) ==
    IF Len(q) < MaxSize THEN w ELSE w + 1

\* the queue after n puts of e in a row
RECURSIVE PutN(_, _, _)
PutN(q, e, n) == IF n = 0 THEN q ELSE PutN(queue_after_put(q, e), e, n - 1)

RECURSIVE WarnN(_, _, _, _)
WarnN(q, w, e, n) ==
    IF n = 0 THEN w
    ELSE WarnN(queue_after_put(q, e), warnings_after_put(q, w), e, n - 1)

NoBurst == [active |-> FALSE, queue0 |-> <<>>, warnings0 |-> 0, ids |-> <<>>]

\* history of a put sequence on a full queue: it starts with the first put
\* that meets the queue full and lasts until a consumer takes an envelope
BurstAfterPut(q, w, id) ==
    IF Len(q) < MaxSize /\ ~burst.active THEN burst
    ELSE IF burst.active
         THEN [burst EXCEPT !.ids = Append(burst.ids, id)]
         ELSE [active |-> TRUE, queue0 |-> q, warnings0 |-> w, ids |-> <<id>>]

\* _notify_callbacks: n calls put(e), one per registered callback, by the
\* thread that created e
PutEnvelope(e, n) ==
    /\ queue' = PutN(queue, e, n)
    /\ warnings' = WarnN(queue, warnings, e, n)
    /\ offered' = offered @@ (e.id :> e.src)
    /\ nextId' = nextId + 1

QueueInit ==
    /\ queue = <<>>
    /\ processing = FALSE
    /\ stop_event = FALSE
    /\ processor_thread = 0
    /\ thr = [t \in ThreadIds |-> NoThread]
    /\ joining = FALSE
    /\ warnings = 0
    /\ nextId = 1
    /\ handed = <<>>
    /\ offered = <<>>
    /\ accepted = {}
    /\ afterInstall = {}
    /\ faulted = {}
    /\ burst = NoBurst

\* EventQueue.put called by a producer thread
Put ==
    /\ nextId <= MaxPut
    /\ \E k \in PipelineKinds :
        /\ PutEnvelope([id |-> nextId, src |-> "producer", event_type |-> k,
                        event_time |-> nextId], 1)
        /\ burst' = BurstAfterPut(queue, warnings, nextId)
    /\ UNCHANGED <<processing, stop_event, processor_thread, thr, joining, handed,
                   accepted, afterInstall, faulted, managerVars>>

\* EventQueue.start_processing(processor): a second call while _processing
\* returns at once
start_processing(h) ==
    /\ ~processing
    /\ \E t \in ThreadIds :
        /\ thr[t].pc \in {"none", "dead"}
        /\ processing' = TRUE
        /\ stop_event' = FALSE
        /\ processor_thread' = t
        /\ thr' = [thr EXCEPT ![t] = [pc |-> "loop", batch |-> <<>>, cur |-> 0,
                                      processor |-> h]]

\* EventQueue.stop_processing up to the join
stop_processing ==
    /\ processing' = FALSE
    /\ stop_event' = TRUE
    /\ joining' = (processor_thread # 0 /\ thr[processor_thread].pc # "dead")

\* join(timeout=5.0) returns: the thread has ended, or the five seconds have
\* passed while it is inside a processor call
JoinReturn ==
    /\ joining
    /\ thr[processor_thread].pc \in {"dead", "call"}
    /\ joining' = FALSE
    /\ UNCHANGED <<queue, processing, stop_event, processor_thread, thr, warnings,
                   managerVars, pipeHist>>

\* _process_events: the while condition
LoopCheck(t) ==
    /\ thr[t].pc = "loop"
    /\ thr' = [thr EXCEPT ![t].pc =
                  IF processing /\ ~stop_event THEN "get" ELSE "dead"]
    /\ UNCHANGED <<queue, processing, stop_event, processor_thread, joining, warnings,
                   managerVars, pipeHist>>

\* _process_events: queue.get(timeout=1.0); queue.Empty goes back to the while
GetFirst(t) ==
    /\ thr[t].pc = "get"
    /\ IF queue # <<>>
       THEN /\ thr' = [thr EXCEPT ![t].pc = "collect", ![t].batch = <<Head(queue)>>]
            /\ queue' = Tail(queue)
            /\ afterInstall' = IF handle_event_attr = "enhanced"
                               THEN afterInstall \cup {Head(queue).id} ELSE afterInstall
            /\ burst' = NoBurst
       ELSE /\ thr' = [thr EXCEPT ![t].pc = "loop"]
            /\ UNCHANGED <<queue, afterInstall, burst>>
    /\ UNCHANGED <<processing, stop_event, processor_thread, joining, warnings,
                   managerVars, nextId, handed, offered, accepted, faulted>>

\* mutant: the batch is collected newest first
batch_after_get_front(b, e) == <<e>> \o b

\* _process_events: events.append(event)
batch_after_get(b, e) == Append(b, e)

\* _process_events: get_nowait while the batch is short; queue.Empty ends it
CollectMore(t) ==
    /\ thr[t].pc = "collect"
    /\ IF Len(thr[t].batch) < BatchSize /\ queue # <<>>
       THEN /\ thr' = [thr EXCEPT ![t].batch = batch_after_get(@, Head(queue))]
            /\ queue' = Tail(queue)
            /\ afterInstall' = IF handle_event_attr = "enhanced"
                               THEN afterInstall \cup {Head(queue).id} ELSE afterInstall
            /\ burst' = NoBurst
       ELSE /\ thr' = [thr EXCEPT ![t].pc = "batch"]
            /\ UNCHANGED <<queue, afterInstall, burst>>
    /\ UNCHANGED <<processing, stop_event, processor_thread, joining, warnings,
                   managerVars, nextId, handed, offered, accepted, faulted>>

\* _process_events: processor(event) is entered
CallBegin(t) ==
    /\ thr[t].pc = "batch"
    /\ thr[t].batch # <<>>
    /\ thr' = [thr EXCEPT ![t].pc = "call", ![t].cur = Head(thr[t].batch),
                          ![t].batch = Tail(thr[t].batch)]
    /\ handed' = Append(handed, Head(thr[t].batch).id)
    /\ UNCHANGED <<queue, processing, stop_event, processor_thread, joining, warnings,
                   managerVars, nextId, offered, accepted, afterInstall, faulted, burst>>

\* EventManager._handle_event: the envelope is stored (an exception of the
\* DAO is caught and logged)
HandleEventDefault(e, db_ok) ==
    /\ system_events' = IF db_ok THEN system_events \cup {e.id} ELSE system_events
    /\ UNCHANGED <<accepted, filterVars, filterHist, calcVars, time_records, calcHist>>

\* EnhancedEventProcessor.process_event: filter, _save_to_database, calculator
ProcessEvent(e, db_ok, rec_ok) ==
    LET ok == should_process(enabled_events, min_interval, last_event_time, e)
    IN  /\ FilterCall(e, FALSE)
        /\ accepted' = IF ok THEN accepted \cup {e.id} ELSE accepted
        /\ IF ok
           THEN /\ system_events' = IF db_ok THEN system_events \cup {e.id}
                                    ELSE system_events
                /\ handle_event(e, rec_ok)
           ELSE UNCHANGED <<system_events, calcVars, time_records, calcHist>>

\* a processor the caller of start_processing supplies: it changes nothing of
\* this model, and it returns or raises
HandleEventCustom ==
    UNCHANGED <<system_events, accepted, filterVars, filterHist, calcVars, time_records,
                calcHist>>

\* mutant: an exception of the processor ends the consumer thread
pc_after_call_raise_exits(batch, raised) ==
    IF raised THEN "dead" ELSE IF batch = <<>> THEN "loop" ELSE "batch"

\* _process_events: where the thread goes on after processor(event) has
\* returned or raised (except Exception: log, task_done)
pc_after_call(batch, raised) ==
    IF batch = <<>> THEN "loop" ELSE "batch"

\* _process_events: processor(event) returns or raises and the loop goes on;
\* _handle_event and process_event catch what their components raise
CallEnd(t) ==
    /\ thr[t].pc = "call"
    /\ \E db_ok, rec_ok, raised \in BOOLEAN :
        /\ raised => thr[t].processor = "custom"
        /\ thr[t].processor = "custom" => db_ok
        /\ thr[t].processor # "enhanced" => rec_ok
        /\ CASE thr[t].processor = "enhanced" -> ProcessEvent(thr[t].cur, db_ok, rec_ok)
             [] thr[t].processor = "custom" -> HandleEventCustom
             [] OTHER -> HandleEventDefault(thr[t].cur, db_ok)
        /\ faulted' = IF raised \/ ~db_ok \/ ~rec_ok
                      THEN faulted \cup {thr[t].cur.id} ELSE faulted
        /\ thr' = [thr EXCEPT ![t].pc = pc_after_call(thr[t].batch, raised),
                              ![t].cur = 0]
    /\ UNCHANGED <<queue, processing, stop_event, processor_thread, joining, warnings,
                   handle_event_attr, listeners, callbacks, listener_running,
                   manager_running, nextId, handed, offered, afterInstall, burst, feedHist,
                   hist, enhVars, enhHist, listenerVars, nativeVars, serviceVars>>

restOfModel == <<filterVars, filterHist, calcVars, time_records, calcHist, feedHist, hist,
                 enhVars, enhHist, listenerVars, nativeVars, serviceVars>>

\* the steps of the consumer threads
Consumer ==
    \E t \in ThreadIds :
        \/ LoopCheck(t) /\ UNCHANGED restOfModel
        \/ GetFirst(t) /\ UNCHANGED restOfModel
        \/ CollectMore(t) /\ UNCHANGED restOfModel
        \/ CallBegin(t) /\ UNCHANGED restOfModel
        \/ CallEnd(t)

\* EventManager.__init__: the queue consumer is started with the method
\* _handle_event is bound to at that moment
ManagerInit ==
    /\ handle_event_attr = "default"
    /\ listeners = {}
    /\ callbacks = [s \in Sources |-> 0]
    /\ listener_running = [s \in Sources |-> FALSE]
    /\ manager_running = FALSE
    /\ system_events = {}

\* EventManager.register_listener
register_listener(s) ==
    /\ listeners' = listeners \cup {s}
    /\ callbacks' = [callbacks EXCEPT ![s] = @ + 1]

\* EventManager.start_all
start_all ==
    IF manager_running
    THEN UNCHANGED <<manager_running, listener_running>>
    ELSE /\ manager_running' = TRUE
         /\ listener_running' = [s \in Sources |-> listener_running[s] \/ s \in listeners']

\* a caller registers a listener with the manager
RegisterListener ==
    /\ ~joining
    /\ \E s \in CallerListeners :
        /\ callbacks[s] + 1 \in CallbackCounts
        /\ register_listener(s)
    /\ UNCHANGED <<queueVars, handle_event_attr, listener_running, manager_running,
                   system_events, pipeHist>>

\* a caller starts the manager
StartAll ==
    /\ ~joining
    /\ ~manager_running
    /\ listeners' = listeners
    /\ start_all
    /\ UNCHANGED <<queueVars, handle_event_attr, listeners, callbacks, system_events,
                   pipeHist>>

\* EventService.start: a platform listener is created and registered,
\* _handle_event is replaced by enhanced_event_processor.process_event, the
\* manager is started
ServiceStart ==
    /\ ~joining
    /\ handle_event_attr = "default"
    /\ register_listener(ServiceListener)
    /\ handle_event_attr' = "enhanced"
    /\ start_all
    /\ UNCHANGED <<queueVars, system_events, pipeHist>>

\* EventManager.stop_all: the listeners are stopped, then stop_processing
StopAll ==
    /\ ~joining
    /\ manager_running
    /\ manager_running' = FALSE
    /\ listener_running' = [s \in Sources |-> listener_running[s] /\ s \notin listeners]
    /\ IF processing THEN stop_processing
       ELSE UNCHANGED <<processing, stop_event, joining>>
    /\ UNCHANGED <<queue, processor_thread, thr, warnings, handle_event_attr, listeners,
                   callbacks, system_events, pipeHist>>

\* a running listener's thread creates an envelope and calls its callbacks
Emit ==
    /\ nextId <= MaxEmit
    /\ \E s \in Sources, k \in PipelineKinds :
        /\ listener_running[s]
        /\ PutEnvelope([id |-> nextId, src |-> s, event_type |-> k,
                        event_time |-> nextId], callbacks[s])
    /\ UNCHANGED <<processing, stop_event, processor_thread, thr, joining, handed,
                   accepted, afterInstall, faulted, burst, managerVars>>

\* the processors callers of the queue's own interface pass
CallerProcessors == {"custom"}

\* a caller of the queue's own interface
StartProcessing ==
    /\ ~joining
    /\ \E h \in CallerProcessors : start_processing(h)
    /\ UNCHANGED <<queue, joining, warnings, managerVars, pipeHist>>

StopProcessing ==
    /\ ~joining
    /\ processing
    /\ stop_processing
    /\ UNCHANGED <<queue, processor_thread, thr, warnings, managerVars, pipeHist>>

\* the EventQueue under its own interface: put, start_processing,
\* stop_processing and the consumer threads
QueueNext ==
    \/ Put /\ UNCHANGED restOfModel
    \/ StartProcessing /\ UNCHANGED restOfModel
    \/ StopProcessing /\ UNCHANGED restOfModel
    \/ JoinReturn /\ UNCHANGED restOfModel
    \/ Consumer

\* the manager as the program runs it: constructed once (the consumer is
\* started in __init__), then registrations, starts, stops and emissions
ManagerNext ==
    \/ RegisterListener /\ UNCHANGED restOfModel
    \/ StartAll /\ UNCHANGED restOfModel
    \/ ServiceStart /\ UNCHANGED restOfModel
    \/ StopAll /\ UNCHANGED restOfModel
    \/ JoinReturn /\ UNCHANGED restOfModel
    \/ Emit /\ UNCHANGED restOfModel
    \/ Consumer

(***************************************************************************)
(* EventListener.start and stop, with the _run loop of                     *)
(* GenericEventListener                                                    *)
(***************************************************************************)
\* envelopes one listener emits in one run
MaxListenerEmits == 3

\* EventListener.__init__
ListenerInit ==
    /\ l_is_running = FALSE
    /\ l_stop_event = FALSE
    /\ l_thread = 0
    /\ l_thr = [t \in ThreadIds |-> "none"]
    /\ l_joining = FALSE
    /\ l_emitted = 0

\* the threads of the listener that have not ended
ListenerThreadsAlive == {t \in ThreadIds : l_thr[t] \notin {"none", "dead"}}

\* stop: join(timeout=5.0) returns when the thread has ended, or when the
\* five seconds have passed while it is in time.sleep(check_interval), 30 s
join_returns(pc) == pc \in {"dead", "sleep"}

\* EventListener.start
ListenerStart ==
    /\ ~l_joining
    /\ IF l_is_running
       THEN UNCHANGED <<l_is_running, l_stop_event, l_thread, l_thr>>
       ELSE \E t \in ThreadIds :
               /\ l_thr[t] \in {"none", "dead"}
               /\ l_is_running' = TRUE
               /\ l_stop_event' = FALSE
               /\ l_thread' = t
               /\ l_thr' = [l_thr EXCEPT ![t] = "startup"]
    /\ UNCHANGED <<l_joining, l_emitted>>

\* EventListener.stop up to the join
ListenerStop ==
    /\ ~l_joining
    /\ IF ~l_is_running
       THEN UNCHANGED <<l_is_running, l_stop_event, l_joining>>
       ELSE /\ l_is_running' = FALSE
            /\ l_stop_event' = TRUE
            /\ l_joining' = (l_thread # 0 /\ l_thr[l_thread] # "dead")
    /\ UNCHANGED <<l_thread, l_thr, l_emitted>>

\* EventListener.stop: the join returns and stop returns
ListenerJoinReturn ==
    /\ l_joining
    /\ join_returns(l_thr[l_thread])
    /\ l_joining' = FALSE
    /\ UNCHANGED <<l_is_running, l_stop_event, l_thread, l_thr, l_emitted>>

\* GenericEventListener._run: _notify_startup_event
ListenerNotifyStartup ==
    \E t \in ThreadIds :
        /\ l_thr[t] = "startup"
        /\ l_emitted < MaxListenerEmits
        /\ l_emitted' = l_emitted + 1
        /\ l_thr' = [l_thr EXCEPT ![t] = "check"]
        /\ UNCHANGED <<l_is_running, l_stop_event, l_thread, l_joining>>

\* GenericEventListener._run: the while condition
ListenerLoopCheck ==
    \E t \in ThreadIds :
        /\ l_thr[t] = "check"
        /\ l_thr' = [l_thr EXCEPT ![t] =
                        IF l_is_running /\ ~l_stop_event THEN "sleep" ELSE "dead"]
        /\ UNCHANGED <<l_is_running, l_stop_event, l_thread, l_joining, l_emitted>>

\* GenericEventListener._run: time.sleep(check_interval) returns
ListenerWake ==
    \E t \in ThreadIds :
        /\ l_thr[t] = "sleep"
        /\ l_thr' = [l_thr EXCEPT ![t] = "check"]
        /\ UNCHANGED <<l_is_running, l_stop_event, l_thread, l_joining, l_emitted>>

restOfListener == <<filterVars, filterHist, calcVars, time_records, calcHist, feedHist,
                    hist, pipeVars, enhVars, enhHist, nativeVars, serviceVars>>

\* one listener under start and stop calls, and its threads
ListenerNext ==
    \/ ListenerStart /\ UNCHANGED restOfListener
    \/ ListenerStop /\ UNCHANGED restOfListener
    \/ ListenerJoinReturn /\ UNCHANGED restOfListener
    \/ ListenerNotifyStartup /\ UNCHANGED restOfListener
    \/ ListenerLoopCheck /\ UNCHANGED restOfListener
    \/ ListenerWake /\ UNCHANGED restOfListener

(***************************************************************************)
(* MultiPlatformEventListener, PlatformEventListenerFactory and the        *)
(* listeners it creates (app/listeners/platform.py, windows_listener.py)   *)
(***************************************************************************)
\* envelopes the wrapped listeners emit in one run of the model
MaxNativeOut == 3

\* window messages and their wParam values (windows_listener.py)
WM_POWERBROADCAST == 536
WM_WTSSESSION_CHANGE == 689
WM_ENDSESSION == 22
WM_QUERYENDSESSION == 17
WM_NULL == 0
PBT_APMSUSPEND == 4
PBT_APMSTANDBY == 5
PBT_APMRESUMESUSPEND == 7
PBT_APMRESUMESTANDBY == 8
PBT_APMRESUMEAUTOMATIC == 18
WTS_SESSION_LOGON == 5
WTS_SESSION_LOGOFF == 6
WTS_SESSION_LOCK == 7
WTS_SESSION_UNLOCK == 8

WindowMessages == {WM_POWERBROADCAST, WM_WTSSESSION_CHANGE, WM_ENDSESSION,
                   WM_QUERYENDSESSION, WM_NULL}
WParams == {0, 1, PBT_APMSUSPEND, WTS_SESSION_LOGOFF, WTS_SESSION_LOCK,
            WTS_SESSION_UNLOCK}

\* WindowsEventListener.power_event_map
power_event_map ==
    [w \in {PBT_APMSUSPEND, PBT_APMSTANDBY, PBT_APMRESUMESUSPEND, PBT_APMRESUMESTANDBY,
            PBT_APMRESUMEAUTOMATIC} |->
        IF w \in {PBT_APMSUSPEND, PBT_APMSTANDBY} THEN "suspend" ELSE "resume"]

\* WindowsEventListener.session_event_map
session_event_map ==
    [w \in {WTS_SESSION_LOCK, WTS_SESSION_UNLOCK, WTS_SESSION_LOGON, WTS_SESSION_LOGOFF} |->
        CASE w = WTS_SESSION_LOCK -> "lock"
          [] w = WTS_SESSION_UNLOCK -> "unlock"
          [] w = WTS_SESSION_LOGON -> "startup"
          [] OTHER -> "shutdown"]

\* what DefWindowProcW answers
DefWindowProc == "DefWindowProcW"

\* a _window_proc that leaves WM_QUERYENDSESSION to the default procedure
window_proc_default_query(msg, wparam) ==
    CASE msg = WM_POWERBROADCAST /\ wparam \in DOMAIN power_event_map ->
            [emit |-> <<power_event_map[wparam]>>, reply |-> DefWindowProc]
      [] msg = WM_WTSSESSION_CHANGE /\ wparam \in DOMAIN session_event_map ->
            [emit |-> <<session_event_map[wparam]>>, reply |-> DefWindowProc]
      [] msg = WM_ENDSESSION /\ wparam # 0 ->
            [emit |-> <<"shutdown">>, reply |-> DefWindowProc]
      [] OTHER -> [emit |-> <<>>, reply |-> DefWindowProc]

\* WindowsEventListener._window_proc: the kinds it passes to _notify_event
\* and what it returns
window_proc(msg, wparam) ==
    CASE msg = WM_POWERBROADCAST /\ wparam \in DOMAIN power_event_map ->
            [emit |-> <<power_event_map[wparam]>>, reply |-> DefWindowProc]
      [] msg = WM_WTSSESSION_CHANGE /\ wparam \in DOMAIN session_event_map ->
            [emit |-> <<session_event_map[wparam]>>, reply |-> DefWindowProc]
      [] msg = WM_ENDSESSION /\ wparam # 0 ->
            [emit |-> <<"shutdown">>, reply |-> DefWindowProc]
      [] msg = WM_QUERYENDSESSION ->
            [emit |-> <<"shutdown">>, reply |-> "True"]
      [] OTHER -> [emit |-> <<>>, reply |-> DefWindowProc]

\* platform.system()
Systems == {"Windows", "Darwin", "Linux", "Other"}

\* PlatformEventListenerFactory.create_listener; failed: the import or the
\* constructor of the platform's listener raised
create_listener(system, failed) ==
    IF failed THEN "GenericEventListener"
    ELSE CASE system = "Windows" -> "WindowsEventListener"
           [] system = "Darwin" -> "MacOSEventListener"
           [] system = "Linux" -> "LinuxEventListener"
           [] OTHER -> "GenericEventListener"

\* get_supported_events of each listener class
get_supported_events(cls) ==
    IF cls = "GenericEventListener" THEN {"startup"}
    ELSE IF cls = None THEN {}
    ELSE {"lock", "unlock", "suspend", "resume", "startup", "shutdown"}

\* a loop body that emits a Startup envelope at every pass
run_loop_emits_startup(cls) == <<"startup">>

\* the body of the while loop of GenericEventListener, MacOSEventListener
\* and LinuxEventListener._run: time.sleep and nothing else
run_loop_emits(cls) == <<>>

Emitted(kinds, cls) == [i \in 1..Len(kinds) |-> [kind |-> kinds[i], by |-> cls]]

NoProc == [handled |-> FALSE, msg |-> WM_NULL, reply |-> None, before |-> 0,
           cb_raised |-> FALSE]

\* MultiPlatformEventListener.__init__
NativeInit ==
    /\ n_is_running = FALSE
    /\ n_platform_listener = None
    /\ n_pc = "none"
    /\ n_registered = FALSE
    /\ n_out = <<>>
    /\ n_since = 0
    /\ n_fail = None
    /\ n_proc = NoProc

\* MultiPlatformEventListener.start: the factory creates the listener, the
\* callbacks are forwarded and the listener's thread is started
NativeStart ==
    /\ IF n_is_running
       THEN UNCHANGED <<n_is_running, n_platform_listener, n_pc, n_since, n_fail>>
       ELSE \E system \in Systems, failed \in BOOLEAN :
               /\ failed => system = "Windows"
               /\ n_platform_listener' = create_listener(system, failed)
               /\ n_fail' = IF failed THEN "create_listener" ELSE None
               /\ n_pc' = "run"
               /\ n_since' = Len(n_out)
               /\ n_is_running' = TRUE
    /\ UNCHANGED <<n_registered, n_out, n_proc>>

\* MultiPlatformEventListener.stop: the wrapped listener is stopped (its
\* flags are cleared and its thread joined for five seconds, which lets a
\* thread that was just started reach its loop) and dropped; dropped, its
\* flags are never set again and its thread ends at its next look at them
NativeStop ==
    /\ IF ~n_is_running
       THEN UNCHANGED <<n_is_running, n_platform_listener, n_pc, n_registered>>
       ELSE /\ n_pc \in {"loop", "check", "sleep", "dead"}
            /\ n_is_running' = FALSE
            /\ n_platform_listener' = None
            /\ n_pc' = "dead"
            /\ n_registered' = FALSE
    /\ UNCHANGED <<n_out, n_since, n_fail, n_proc>>

\* WindowsEventListener._run: _create_window; when it raises the except
\* clause logs, _cleanup runs and the thread ends
NativeCreateWindow ==
    /\ n_pc = "run"
    /\ n_platform_listener = "WindowsEventListener"
    /\ \E ok \in BOOLEAN :
        /\ n_pc' = IF ok THEN "register" ELSE "dead"
        /\ n_fail' = IF ok THEN n_fail ELSE "create_window"
    /\ UNCHANGED <<n_is_running, n_platform_listener, n_registered, n_out, n_since, n_proc>>

\* WindowsEventListener._register_notifications: a failure is logged as a
\* warning and _run goes on to the message loop
NativeRegister ==
    /\ n_pc = "register"
    /\ \E ok \in BOOLEAN :
        /\ n_registered' = ok
        /\ n_fail' = IF ok THEN n_fail ELSE "register_notifications"
    /\ n_pc' = "loop"
    /\ UNCHANGED <<n_is_running, n_platform_listener, n_out, n_since, n_proc>>

\* WindowsEventListener._message_loop dispatches one message to
\* _window_proc; _notify_callbacks catches what a callback raises
NativeDispatch ==
    /\ n_pc = "loop"
    /\ n_is_running
    /\ \E msg \in WindowMessages, wparam \in WParams, cb_raises \in BOOLEAN :
        LET r == window_proc(msg, wparam) IN
        /\ msg = WM_WTSSESSION_CHANGE => n_registered
        /\ Len(n_out) + Len(r.emit) <= MaxNativeOut
        /\ cb_raises => r.emit # <<>>
        /\ n_out' = n_out \o Emitted(r.emit, n_platform_listener)
        /\ n_proc' = [handled |-> TRUE, msg |-> msg, reply |-> r.reply,
                      before |-> Len(n_out), cb_raised |-> cb_raises]
    /\ UNCHANGED <<n_is_running, n_platform_listener, n_pc, n_registered, n_since, n_fail>>

\* _run of GenericEventListener, MacOSEventListener and LinuxEventListener:
\* the Startup envelope
NativeNotifyStartup ==
    /\ n_pc = "run"
    /\ n_platform_listener \in {"GenericEventListener", "MacOSEventListener",
                                "LinuxEventListener"}
    /\ Len(n_out) < MaxNativeOut
    /\ n_out' = Append(n_out, [kind |-> "startup", by |-> n_platform_listener])
    /\ n_pc' = "check"
    /\ UNCHANGED <<n_is_running, n_platform_listener, n_registered, n_since, n_fail, n_proc>>

\* the while condition of these _run loops
NativeLoopCheck ==
    /\ n_pc = "check"
    /\ n_pc' = IF n_is_running THEN "sleep" ELSE "dead"
    /\ UNCHANGED <<n_is_running, n_platform_listener, n_registered, n_out, n_since, n_fail,
                   n_proc>>

\* one pass of the loop body
NativeWake ==
    /\ n_pc = "sleep"
    /\ Len(n_out) + Len(run_loop_emits(n_platform_listener)) <= MaxNativeOut
    /\ n_out' = n_out \o Emitted(run_loop_emits(n_platform_listener), n_platform_listener)
    /\ n_pc' = "check"
    /\ UNCHANGED <<n_is_running, n_platform_listener, n_registered, n_since, n_fail, n_proc>>

restOfNative == <<filterVars, filterHist, calcVars, time_records, calcHist, feedHist,
                  hist, pipeVars, enhVars, enhHist, listenerVars, serviceVars>>

\* the platform listener under start and stop calls, its thread and the
\* window messages it receives
NativeNext ==
    \/ NativeStart /\ UNCHANGED restOfNative
    \/ NativeStop /\ UNCHANGED restOfNative
    \/ NativeCreateWindow /\ UNCHANGED restOfNative
    \/ NativeRegister /\ UNCHANGED restOfNative
    \/ NativeDispatch /\ UNCHANGED restOfNative
    \/ NativeNotifyStartup /\ UNCHANGED restOfNative
    \/ NativeLoopCheck /\ UNCHANGED restOfNative
    \/ NativeWake /\ UNCHANGED restOfNative

(***************************************************************************)
(* EventService.start and stop, and its monitor thread (event_service.py)  *)
(***************************************************************************)
\* passes of the monitor loop's body in one run of the model
MaxChecks == 2

\* EventService.__init__
ServiceInit ==
    /\ s_is_running = FALSE
    /\ s_stop_event = FALSE
    /\ s_monitor_thread = 0
    /\ s_thr = [t \in ThreadIds |-> "none"]
    /\ s_start = "idle"
    /\ s_checks = 0

\* EventService._start_monitor
start_monitor ==
    \E t \in ThreadIds :
        /\ s_thr[t] \in {"none", "dead"}
        /\ s_stop_event' = FALSE
        /\ s_monitor_thread' = t
        /\ s_thr' = [s_thr EXCEPT ![t] = "check"]

\* EventService.start up to and with _start_monitor(): the platform listener
\* is created and registered, the processor replaced, the manager started,
\* the monitor thread started
ServiceStartBegin ==
    /\ s_start = "idle"
    /\ ~joining
    /\ IF s_is_running
       THEN UNCHANGED <<managerVars, serviceVars>>
       ELSE /\ register_listener(ServiceListener)
            /\ handle_event_attr' = "enhanced"
            /\ start_all
            /\ start_monitor
            /\ s_start' = "monitor_started"
            /\ UNCHANGED <<system_events, s_is_running, s_checks>>
    /\ UNCHANGED <<queueVars, pipeHist>>

\* EventService.start: is_running = True, and start returns
ServiceStartEnd ==
    /\ s_start = "monitor_started"
    /\ s_is_running' = TRUE
    /\ s_start' = "idle"
    /\ UNCHANGED <<s_stop_event, s_monitor_thread, s_thr, s_checks, queueVars, managerVars,
                   pipeHist>>

\* EventService.stop: the flags, the join of the monitor thread (five
\* seconds: a pass of the loop body ends within them, a time.sleep(30) does
\* not), stop_all and unregister_listener
ServiceStop ==
    /\ s_start = "idle"
    /\ ~joining
    /\ \A t \in ThreadIds : s_thr[t] # "body"
    /\ IF ~s_is_running
       THEN UNCHANGED <<queueVars, managerVars, serviceVars>>
       ELSE /\ s_is_running' = FALSE
            /\ s_stop_event' = TRUE
            /\ manager_running' = FALSE
            /\ IF manager_running /\ processing THEN stop_processing
               ELSE UNCHANGED <<processing, stop_event, joining>>
            /\ listeners' = listeners \ {ServiceListener}
            /\ callbacks' = [callbacks EXCEPT ![ServiceListener] = 0]
            /\ listener_running' = [s \in Sources |->
                    listener_running[s] /\ s # ServiceListener
                    /\ ~(manager_running /\ s \in listeners)]
            /\ UNCHANGED <<queue, processor_thread, thr, warnings, handle_event_attr,
                           system_events, s_monitor_thread, s_thr, s_start, s_checks>>
    /\ UNCHANGED pipeHist

\* _monitor_loop: the while condition
MonitorLoopCheck ==
    \E t \in ThreadIds :
        /\ s_thr[t] = "check"
        /\ s_thr' = [s_thr EXCEPT ![t] =
                        IF s_is_running /\ ~s_stop_event THEN "body" ELSE "dead"]
        /\ UNCHANGED <<s_is_running, s_stop_event, s_monitor_thread, s_start, s_checks,
                       queueVars, managerVars, pipeHist>>

\* _monitor_loop: one pass of the body, which starts the manager again when
\* get_status says it is not running
MonitorBody ==
    \E t \in ThreadIds :
        /\ s_thr[t] = "body"
        /\ s_checks < MaxChecks
        /\ s_checks' = s_checks + 1
        /\ s_thr' = [s_thr EXCEPT ![t] = "sleep"]
        /\ listeners' = listeners
        /\ start_all
        /\ UNCHANGED <<s_is_running, s_stop_event, s_monitor_thread, s_start, queueVars,
                       handle_event_attr, callbacks, system_events, pipeHist>>

\* _monitor_loop: time.sleep(30) returns
MonitorWake ==
    \E t \in ThreadIds :
        /\ s_thr[t] = "sleep"
        /\ s_thr' = [s_thr EXCEPT ![t] = "check"]
        /\ UNCHANGED <<s_is_running, s_stop_event, s_monitor_thread, s_start, s_checks,
                       queueVars, managerVars, pipeHist>>

restOfService == <<filterVars, filterHist, calcVars, time_records, calcHist, feedHist,
                   hist, enhVars, enhHist, listenerVars, nativeVars>>

\* the service under start and stop calls, its monitor thread and the
\* queue's consumer
ServiceNext ==
    \/ ServiceStartBegin /\ UNCHANGED restOfService
    \/ ServiceStartEnd /\ UNCHANGED restOfService
    \/ ServiceStop /\ UNCHANGED restOfService
    \/ MonitorLoopCheck /\ UNCHANGED restOfService
    \/ MonitorBody /\ UNCHANGED restOfService
    \/ MonitorWake /\ UNCHANGED restOfService
    \/ JoinReturn /\ UNCHANGED restOfModel
    \/ (\E t \in ThreadIds : LoopCheck(t)) /\ UNCHANGED restOfModel

restOfEnh == <<filterVars, filterHist, calcVars, calcHist, feedHist, hist, pipeVars,
               listenerVars, nativeVars, serviceVars>>

\* the calculator under system events and calls of its own interface
EnhNext ==
    \/ enh_calls < MaxCalls /\ EnhEvent /\ UNCHANGED restOfEnh
    \/ enh_calls < MaxCalls /\ EnhStartBreak /\ UNCHANGED restOfEnh
    \/ enh_calls < MaxCalls /\ EnhEndBreak /\ UNCHANGED restOfEnh
    \/ enh_calls < MaxCalls /\ EnhEndWorkSession /\ UNCHANGED restOfEnh

restOfFilter == <<calcVars, time_records, calcHist, feedHist, pipeVars, hist, enhVars,
                  enhHist, listenerVars, nativeVars, serviceVars>>

FilterNext ==
    \/ Feed /\ UNCHANGED restOfFilter
    \/ FeedAgain /\ UNCHANGED restOfFilter
    \/ set_enabled_events /\ UNCHANGED restOfFilter

restOfCalc == <<filterVars, filterHist, feedHist, pipeVars, hist, enhVars, enhHist, listenerVars, nativeVars, serviceVars>>

CalcNext ==
    \/ nCloses < MaxCloses /\ CalcStartup /\ UNCHANGED restOfCalc
    \/ nCloses < MaxCloses /\ CalcLock /\ UNCHANGED restOfCalc
    \/ nCloses < MaxCloses /\ CalcUnlock /\ UNCHANGED restOfCalc
    \/ nCloses < MaxCloses /\ CalcShutdown /\ UNCHANGED restOfCalc
    \/ nCloses < MaxCloses /\ CalcSuspendResume /\ UNCHANGED restOfCalc

SessionNext ==
    /\ nCloses < MaxCloses
    /\ SessionFeed
    /\ UNCHANGED <<filterVars, filterHist, pipeVars, enhVars, enhHist, listenerVars, nativeVars, serviceVars>>

vars == <<filterVars, filterHist, calcVars, time_records, calcHist, feedHist, pipeVars,
          hist, enhVars, enhHist, listenerVars, nativeVars, serviceVars>>

FeedInit == machine = "Idle" /\ clock = 0 /\ hist = NoHist

FilterOnlyInit ==
    /\ ListenerInit
    /\ NativeInit
    /\ ServiceInit
    /\ FilterInit
    /\ EnhIdle
    /\ CalcConstructed
    /\ time_records = EmptyTable
    /\ FeedInit
    /\ QueueInit
    /\ ManagerInit

SpecFilter == FilterOnlyInit /\ [][FilterNext]_vars

CalcOnlyInit ==
    /\ ListenerInit
    /\ NativeInit
    /\ ServiceInit
    /\ CalcInit
    /\ EnhIdle
    /\ FeedInit
    /\ QueueInit
    /\ ManagerInit
    /\ enabled_events = EventType
    /\ min_interval = DefaultIntervals
    /\ last_event_time = EmptyDict
    /\ fedKinds = {"lock", "unlock"}
    /\ fcall = NoCall
    /\ lastAccepted = EmptyDict
    /\ between = [x \in fedKinds |-> 0]

SpecCalc == CalcOnlyInit /\ [][CalcNext]_vars

\* the calculator fed event sequences that respect the state machine
SpecSession == CalcOnlyInit /\ [][SessionNext]_vars

PipeInit ==
    /\ ListenerInit
    /\ NativeInit
    /\ ServiceInit
    /\ CalcConstructed
    /\ EnhIdle
    /\ time_records = EmptyTable
    /\ FeedInit
    /\ enabled_events = EventType
    /\ min_interval = DefaultIntervals
    /\ last_event_time = EmptyDict
    /\ fedKinds = PipelineKinds
    /\ fcall = NoCall
    /\ lastAccepted = EmptyDict
    /\ between = [x \in fedKinds |-> 0]
    /\ ManagerInit

\* an EventQueue just constructed
QueueOnlyInit == PipeInit /\ QueueInit

SpecQueue == QueueOnlyInit /\ [][QueueNext]_vars

\* event_manager = EventManager(): __init__ has called
\* event_queue.start_processing(self._handle_event)
ManagerConstructed ==
    /\ queue = <<>>
    /\ processing = TRUE
    /\ stop_event = FALSE
    /\ processor_thread = 1
    /\ thr = [t \in ThreadIds |->
                IF t = 1 THEN [pc |-> "loop", batch |-> <<>>, cur |-> 0,
                               processor |-> "default"]
                ELSE NoThread]
    /\ joining = FALSE
    /\ warnings = 0
    /\ nextId = 1
    /\ handed = <<>>
    /\ offered = <<>>
    /\ accepted = {}
    /\ afterInstall = {}
    /\ faulted = {}
    /\ burst = NoBurst

\* the state after the modules are imported
Init == PipeInit /\ ManagerConstructed

\* an EnhancedWorkTimeCalculator just constructed, in any mode
EnhOnlyInit ==
    /\ ListenerInit
    /\ NativeInit
    /\ ServiceInit
    /\ CalcConstructed
    /\ FeedInit
    /\ QueueInit
    /\ ManagerInit
    /\ enabled_events = EventType
    /\ min_interval = DefaultIntervals
    /\ last_event_time = EmptyDict
    /\ fedKinds = PipelineKinds
    /\ fcall = NoCall
    /\ lastAccepted = EmptyDict
    /\ between = [x \in fedKinds |-> 0]
    /\ work_mode \in WorkMode
    /\ EnhConstructed
    /\ time_records = EmptyTable

SpecEnhanced == EnhOnlyInit /\ [][EnhNext]_vars

Spec == Init /\ [][ManagerNext]_vars

(***************************************************************************)
(* Properties of the queue, its consumer and the manager                    *)
(***************************************************************************)
Ids(q) == {q[i].id : i \in 1..Len(q)}

\* C1: once EventService.start has installed the enhanced processor, an
\* envelope the consumer dequeues reaches event persistence only if
\* should_process accepted it.
C1_NoPathAroundFilter ==
    \A id \in afterInstall : id \in system_events => id \in accepted

\* C2: put never blocks and the queue never holds more than max_size
\* envelopes; a put on a full queue discards the new envelope and leaves the
\* queued envelopes and their order as they were.
C2_PutNeverBlocksNorGrowsPastCapacity ==
    [][/\ Len(queue') <= MaxSize
       /\ (nextId <= MaxPut => ENABLED Put)
       /\ (nextId' # nextId /\ Len(queue) = MaxSize => queue' = queue)
       /\ (nextId' # nextId /\ Len(queue) < MaxSize =>
               /\ Len(queue') = Len(queue) + 1
               /\ SubSeq(queue', 1, Len(queue)) = queue
               /\ queue'[Len(queue')].id = nextId)]_vars

\* two puts in a row met the full queue
C2_Witness ==
    /\ burst.active
    /\ Len(burst.ids) >= 2
    /\ Len(queue) = MaxSize
    /\ queue = burst.queue0

\* the numbers the EventQueue object keeps, now and when the overflow began:
\* the size of _queue is the only one (_processing and _stop_event are flags)
EventQueueCounters ==
    {[now |-> Len(queue), then |-> Len(burst.queue0)]}

\* C3: from a full queue with no consumer progress, k further puts drop
\* exactly those k envelopes and a drop counter of the queue has risen by k.
C3_OverflowDroppedAndCounted ==
    (burst.active /\ Len(burst.ids) >= 1) =>
        /\ queue = burst.queue0
        /\ \A i \in 1..Len(burst.ids) : burst.ids[i] \notin Ids(queue)
        /\ \E c \in EventQueueCounters : c.now - c.then = Len(burst.ids)

\* the part of C3 the code keeps: the k envelopes are dropped, the queued
\* ones stay, and each drop is logged as one warning
OverflowDroppedAndLogged ==
    (burst.active /\ Len(burst.ids) >= 1) =>
        /\ queue = burst.queue0
        /\ \A i \in 1..Len(burst.ids) : burst.ids[i] \notin Ids(queue)
        /\ warnings - burst.warnings0 = Len(burst.ids)

\* C4: the envelopes of one source are handed to the processor in the order
\* the source emitted them.
C4_PerSourceOrder ==
    \A i, j \in 1..Len(handed) :
        (i < j /\ offered[handed[i]] = offered[handed[j]])
            => handed[i] <= handed[j]

\* every envelope of the run was handed, two of them of one source and two
\* of different sources
C4_Witness ==
    /\ Len(handed) = MaxEmit
    /\ \E i, j \in 1..Len(handed) :
        /\ i < j
        /\ handed[i] < handed[j]
        /\ offered[handed[i]] = offered[handed[j]]
    /\ \E i, j \in 1..Len(handed) :
        offered[handed[i]] # offered[handed[j]]

\* C5 (its safety half): no envelope is handed to the processor more than once.
C5_HandedAtMostOnce ==
    \A i, j \in 1..Len(handed) : i # j => handed[i] # handed[j]

\* C6: at most one consumer thread is inside the processor at any time.
C6_OneConsumerInProcessor ==
    Cardinality({t \in ThreadIds : thr[t].pc = "call"}) <= 1


(***************************************************************************)
(* Claims about EventFilter                                                *)
(***************************************************************************)
\* the interval test of a call of kind k at time t whose last accepted
\* envelope of that kind was at time prior: a kind with no configured
\* interval has no minimum
IntervalElapsed(k, t, prior) ==
    \/ k \notin DOMAIN min_interval
    \/ prior = NoTime
    \/ t - prior >= min_interval[k]

\* C7: should_process accepts an envelope if and only if its kind is enabled
\* and either no envelope of that kind was accepted before or its timestamp
\* is at least the kind's configured minimum interval after the last
\* accepted envelope of that kind.
C7_AcceptIffEnabledAndElapsed ==
    fcall.event_type # None =>
        (fcall.result <=>
            (fcall.enabled /\ IntervalElapsed(fcall.event_type, fcall.event_time, fcall.prior)))

\* an envelope accepted exactly at the interval after the last accepted one
C7_Witness ==
    /\ fcall.event_type \in DOMAIN min_interval
    /\ fcall.prior # NoTime
    /\ fcall.event_time - fcall.prior = min_interval[fcall.event_type]
    /\ fcall.result

C9_IntervalIsElapsedTimePerKind ==
    (/\ fcall.event_type # None
     /\ fcall.enabled
     /\ fcall.prior # NoTime
     /\ fcall.event_type \in DOMAIN min_interval
     /\ fcall.event_time - fcall.prior >= min_interval[fcall.event_type])
    => fcall.result

\* Lock accepted at 0 and again at 120 with the 5 s interval, other
\* envelopes fed in between
C9_Witness ==
    /\ fcall.event_type = "lock"
    /\ min_interval = DefaultIntervals
    /\ fcall.prior = 0
    /\ fcall.event_time = 120
    /\ fcall.gap >= 1
    /\ fcall.result

(***************************************************************************)
(* Claims about the work-time calculator                                   *)
(***************************************************************************)
Abs(x) == IF x >= 0 THEN x ELSE -x

\* C10: every session closed by an event sequence that respects the state
\* machine has workMinutes + breakMinutes equal to sessionMinutes, up to the
\* one minute that rounding to whole minutes can lose.
C10_WorkPlusBreakIsSession ==
    summary.closed =>
        Abs(summary.work_minutes + summary.break_minutes - summary.session_minutes) <= 1

\* a closing summary of a session with no break period at all, closed no
\* earlier than it was opened
ClosedWithoutBreak ==
    /\ result.closed
    /\ break_periods = <<>>
    /\ enh_session_end >= enh_session_start

\* C11 as stated: a session from Startup to Shutdown with no Lock or Unlock
\* in between has workMinutes equal to sessionMinutes and breakMinutes 0,
\* whatever its length.
C11_Original ==
    ClosedWithoutBreak =>
        /\ result.break_minutes = 0
        /\ result.work_minutes = result.session_minutes

\* C11: a session from Startup to Shutdown with no Lock or Unlock in
\* between has breakMinutes 0 and workMinutes equal to sessionMinutes in the
\* flexible, shift and remote modes, and to the smaller of sessionMinutes and
\* max_daily_hours * 60 in the standard mode.
C11_WorkIsSessionUpToDailyCap ==
    ClosedWithoutBreak =>
        /\ result.break_minutes = 0
        /\ result.work_minutes =
              IF work_mode = "standard"
              THEN Min(result.session_minutes, RuleMaxDailyMinutes)
              ELSE result.session_minutes

\* Startup at 00:00 and Shutdown at 20:00 in the standard mode: 1200 session
\* minutes, 720 work minutes
C11_Witness ==
    /\ ClosedWithoutBreak
    /\ last_op.op = "shutdown"
    /\ work_mode = "standard"
    /\ result.session_minutes = 1200
    /\ result.work_minutes = 720

\* C12: for Startup at t0, Lock at t1, Unlock at t2 and Shutdown at t3 with
\* t0 <= t1 <= t2 <= t3, breakMinutes is t2 - t1 and workMinutes is
\* (t3 - t0) - (t2 - t1), in whole minutes.
C12_BreakIsLockToUnlock ==
    (summary.closed /\ hist.shape = "SLUD") =>
        /\ summary.break_minutes = TruncDiv(hist.unlock - hist.lock, SecondsPerMinute)
        /\ Abs(summary.work_minutes + summary.break_minutes
                 - summary.session_minutes) <= 1

C14_SummaryNeverNegative ==
    result.closed =>
        /\ result.work_minutes >= 0
        /\ result.break_minutes >= 0
        /\ result.overtime_minutes >= 0

\* C15: after a Shutdown handled while a session is open the calculator
\* has no active session, and a Shutdown arriving next produces no second
\* summary and no second persistence call.
C15_SecondShutdownIsSilent ==
    [][(/\ last_op.op = "shutdown"
        /\ result.closed
        /\ last_op'.op = "shutdown")
       => (/\ enh_session_start = NoTime
           /\ ~result'.closed
           /\ time_records' = time_records)]_vars

\* C16: a Shutdown handled while a break is open closes that break at the
\* Shutdown's time before the summary is computed: the interval from the
\* Lock to the Shutdown is in breakMinutes and not in workMinutes.
C16_OpenBreakClosedAtShutdown ==
    (summary.closed /\ summary.open_lock # NoTime) =>
        /\ summary.break_minutes >=
              TruncDiv(summary.end_time - summary.open_lock, SecondsPerMinute)
        /\ summary.work_minutes <=
              summary.session_minutes
                - TruncDiv(summary.end_time - summary.open_lock, SecondsPerMinute)

\* C17: a Startup handled while a session is open first closes that session
\* at the Startup's time (its summary is computed and handed to persistence)
\* and then opens the new session at that time.
C17_StartupForceCloses ==
    (last_op.op = "startup" /\ last_op.session_before) =>
        /\ result.closed
        /\ enh_session_start = enh_last_activity

\* C18: an Unlock handled while no session is open opens a session that
\* starts at the Unlock's time.
C18_UnlockOpensSession ==
    (last_op.op = "unlock" /\ ~last_op.session_before) =>
        /\ enh_session_start # NoTime
        /\ enh_session_start = enh_last_activity

\* C19: a Suspend handled while a session is open and no break is open
\* opens a system break at the event time.
C19_SuspendOpensBreak ==
    (last_op.op = "suspend" /\ last_op.session_before /\ ~last_op.break_before) =>
        /\ current_break # 0
        /\ break_periods[current_break].break_type = "system"
        /\ break_periods[current_break].end_time = NoTime

\* the break periods with no end time
OpenBreaks == {i \in DOMAIN break_periods : break_periods[i].end_time = NoTime}

C21_LockWhileOnBreakIsNoOp ==
    [][(last_op'.op = "lock" /\ current_break # 0)
       => (/\ break_periods' = break_periods
           /\ current_break' = current_break)]_vars

\* C22: in every reachable state the break periods are ordered and do not
\* overlap: each closed break has start <= end, and each break's end is at
\* most the start of the break after it, whatever the order of the
\* timestamps.
C22_BreaksOrderedAndDisjoint ==
    /\ \A i \in DOMAIN break_periods :
          break_periods[i].end_time # NoTime =>
              break_periods[i].start_time <= break_periods[i].end_time
    /\ \A i \in DOMAIN break_periods :
          (i + 1 \in DOMAIN break_periods /\ break_periods[i].end_time # NoTime) =>
              break_periods[i].end_time <= break_periods[i + 1].start_time

\* C23: each session close calls exactly one of time_record_dao.create and
\* time_record_dao.update: update when a record of the session's date
\* exists, create otherwise.
C23_ExactlyOneDaoCall ==
    [][result'.closed =>
          result'.attempts =
              IF time_records[DateOf(enh_session_start)].exists
              THEN <<"update">> ELSE <<"create">>]_vars

\* the close of the last call made its create or update call, and the call
\* failed
PersistenceFailed ==
    result.closed /\ result.attempts # <<>> /\ result.calls = <<>>

\* C24: when the persistence call of a session close fails the calculator
\* ends with no active session and no later call makes another create or
\* update attempt for that session.
C24_FailedCloseIsNotRetried ==
    [][PersistenceFailed =>
          /\ enh_session_start = NoTime
          /\ (enh_session_start' = enh_session_start => result'.attempts = <<>>)]_vars

\* C25: an envelope stamped earlier than the start of the open session is
\* rejected as a no-op: session start, break list and open break are
\* unchanged and no persistence call is made.
C25_LateEnvelopeRejected ==
    [][(/\ enh_session_start # NoTime
        /\ last_op'.op \in EventType
        /\ last_op'.time < enh_session_start)
       => (/\ enh_session_start' = enh_session_start
           /\ break_periods' = break_periods
           /\ current_break' = current_break
           /\ result'.attempts = <<>>
           /\ time_records' = time_records)]_vars

\* the manager is started and stopped while envelopes reach the
\* calculator: EventService.stop and the application's shutdown hook call
\* stop_all
ShutdownNext ==
    \/ /\ nCloses < MaxCloses
       /\ SessionFeed
       /\ UNCHANGED <<filterVars, filterHist, pipeVars, enhVars, enhHist, listenerVars, nativeVars, serviceVars>>
    \/ StartAll /\ UNCHANGED restOfModel
    \/ StopAll /\ UNCHANGED restOfModel
    \/ JoinReturn /\ UNCHANGED restOfModel
    \/ (\E t \in ThreadIds : LoopCheck(t)) /\ UNCHANGED restOfModel
    \/ (\E t \in ThreadIds : GetFirst(t)) /\ UNCHANGED restOfModel

\* an EventListener just constructed
ListenerOnlyInit == PipeInit /\ QueueInit

SpecListener == ListenerOnlyInit /\ [][ListenerNext]_vars

SpecShutdown == Init /\ [][ShutdownNext]_vars

\* the source recorded for an envelope created through the API
ApiSource == "api"

\* app/api/v1/system_events.py create_system_event: dao.create(event_data),
\* then dao.get_by_id; an exception of the DAO becomes an HTTP 500
CreateSystemEvent ==
    /\ nextId <= MaxEmit
    /\ \E db_ok \in BOOLEAN :
        system_events' = IF db_ok THEN system_events \cup {nextId} ELSE system_events
    /\ offered' = offered @@ (nextId :> ApiSource)
    /\ nextId' = nextId + 1
    /\ UNCHANGED <<queueVars, handle_event_attr, listeners, callbacks, listener_running,
                   manager_running, handed, accepted, afterInstall, faulted, burst>>

\* the running service with envelopes from its listener and from the API
InjectNext ==
    \/ ServiceStart /\ UNCHANGED restOfModel
    \/ Emit /\ UNCHANGED restOfModel
    \/ CreateSystemEvent /\ UNCHANGED restOfModel
    \/ Consumer

InjectOnlyInit == PipeInit /\ ManagerConstructed

SpecInject == InjectOnlyInit /\ [][InjectNext]_vars

NativeOnlyInit == PipeInit /\ QueueInit

SpecNative == NativeOnlyInit /\ [][NativeNext]_vars

ServiceOnlyInit == PipeInit /\ ManagerConstructed

SpecService == ServiceOnlyInit /\ [][ServiceNext]_vars

(***************************************************************************)
(* Claims about the consumer loop and the manager's start and stop         *)
(***************************************************************************)
\* C26: an exception raised while one envelope is handled does not leave
\* the consumer loop: no thread ends with envelopes of its batch
\* unprocessed, and the consumer thread has ended only if the queue was told
\* to stop.
C26_ExceptionStaysInLoop ==
    /\ \A t \in ThreadIds : thr[t].pc = "dead" => thr[t].batch = <<>>
    /\ (processor_thread # 0 /\ thr[processor_thread].pc = "dead") =>
           (~processing \/ stop_event)

\* the processor raised on one envelope and the same thread has entered it
\* again with the next one
C26_Witness ==
    /\ Len(handed) >= 2
    /\ handed[Len(handed) - 1] \in faulted
    /\ thr[1].pc = "call"
    /\ thr[1].processor = "custom"
    /\ thr[1].cur.id = handed[Len(handed)]
    /\ thr[2].pc = "none"

\* stop_all has returned and start_all has not been called since
StopAllReturned == ~manager_running /\ stop_event /\ ~joining

\* C27: when stop_all returns, every envelope enqueued before the sources
\* stopped has been handed to the processor and the queue is empty.
C27_StopAllDrainsQueue ==
    StopAllReturned =>
        /\ queue = <<>>
        /\ \A t \in ThreadIds : thr[t].batch = <<>>

\* C28: whenever the manager is running the queue consumer is running, on
\* the first start and on every start after a stop_all.
C28_RunningManagerHasConsumer ==
    manager_running =>
        /\ processing
        /\ processor_thread # 0
        /\ thr[processor_thread].pc # "dead"

\* C29: when the pipeline has been shut down (stop_all has returned) no
\* session is open: an open session was closed at the current time and
\* handed to persistence.
C29_StopClosesOpenSession ==
    StopAllReturned => session_start = NoTime

\* stop has returned and start has not been called since
ListenerStopReturned == ~l_is_running /\ l_stop_event /\ ~l_joining

\* C30: after stop() has returned no thread of the source is left to emit,
\* and no sequence of start() and stop() calls leaves two threads of the
\* source running.
C30_StopWaitsForThread ==
    /\ ListenerStopReturned => ListenerThreadsAlive = {}
    /\ Cardinality(ListenerThreadsAlive) <= 1

(***************************************************************************)
(* Claims about the platform listeners                                     *)
(***************************************************************************)
\* the envelopes emitted since start was last called
OutSinceStart == {i \in 1..Len(n_out) : i > n_since}

\* C31: when a set-up step of the native source has failed (the listener's
\* creation, the window's creation or the registration of the session
\* notifications), a fallback source is running afterwards and has emitted
\* a Startup envelope.
C31_SetupFailureFallsBack ==
    (n_is_running /\ n_fail # None /\ n_pc \notin {"run", "register"}) =>
        /\ n_platform_listener = "GenericEventListener"
        /\ n_pc # "dead"
        /\ \E i \in OutSinceStart : n_out[i].kind = "startup"

\* C32: a _window_proc call for WM_QUERYENDSESSION has passed a Shutdown
\* envelope to the callbacks and then returned True, also when a callback
\* raised.
C32_QueryEndSessionAnswered ==
    (n_proc.handled /\ n_proc.msg = WM_QUERYENDSESSION) =>
        /\ n_proc.reply = "True"
        /\ Len(n_out) > n_proc.before
        /\ n_out[n_proc.before + 1].kind = "shutdown"

C32_Witness ==
    /\ n_proc.handled
    /\ n_proc.msg = WM_QUERYENDSESSION
    /\ n_proc.cb_raised
    /\ n_proc.reply = "True"
    /\ n_out[Len(n_out)].kind = "shutdown"

\* C34: every envelope's kind is one its source lists in
\* get_supported_events, and a started GenericEventListener has emitted one
\* Startup envelope and nothing else, however often its loop has woken.
C34_OneStartupThenSilence ==
    /\ \A i \in 1..Len(n_out) : n_out[i].kind \in get_supported_events(n_out[i].by)
    /\ (n_is_running /\ n_platform_listener = "GenericEventListener") =>
            /\ Cardinality(OutSinceStart) <= 1
            /\ n_pc # "run" =>
                  /\ Cardinality(OutSinceStart) = 1
                  /\ n_out[Len(n_out)] = [kind |-> "startup", by |-> "GenericEventListener"]

\* the fallback source, started a second time, idles after its Startup
C34_Witness ==
    /\ n_is_running
    /\ n_platform_listener = "GenericEventListener"
    /\ n_pc = "sleep"
    /\ n_since > 0
    /\ Len(n_out) = n_since + 1
    /\ n_out[Len(n_out)].kind = "startup"

(***************************************************************************)
(* Claims about EventService                                               *)
(***************************************************************************)
\* C39: once start() has returned with the service running, the monitor
\* thread it started has not ended, under every interleaving of the caller
\* and the monitor thread.
C39_MonitorActiveAfterStart ==
    (s_is_running /\ s_start = "idle") =>
        /\ s_monitor_thread # 0
        /\ s_thr[s_monitor_thread] # "dead"

\* C33: an envelope created through the API reaches event persistence only
\* if should_process accepted it.
C33_InjectedPassesFilter ==
    \A id \in DOMAIN offered :
        (offered[id] = ApiSource /\ id \in system_events) => id \in accepted

(***************************************************************************)
(* Further claims about the calculators and the filter                     *)
(***************************************************************************)
\* C35: an Unlock handled while a break is open closes that break at the
\* Unlock's time and leaves no break open, whatever the type of the break.
C35_UnlockClosesAnyBreak ==
    [][(last_op'.op = "unlock" /\ current_break # 0)
       => (/\ current_break' = 0
           /\ break_periods'[current_break].end_time = last_op'.time)]_vars

\* C36: a should_process call that returns False leaves last_event_time as
\* it was, a call that returns True changes at most the entry of the
\* envelope's own kind, and so an envelope of an enabled kind is accepted
\* once the interval has elapsed since the last accepted envelope of its
\* kind, however many closer ones were rejected in between.
C36_FilterFrame ==
    [][/\ ~fcall'.result => last_event_time' = last_event_time
       /\ \A k \in EventType \ {fcall'.event_type} :
              DictGet(last_event_time', k) = DictGet(last_event_time, k)
       /\ (/\ fcall'.enabled
           /\ fcall'.event_type \in DOMAIN min_interval
           /\ fcall'.event_type \in DOMAIN lastAccepted
           /\ fcall'.event_time - lastAccepted[fcall'.event_type]
                 >= min_interval[fcall'.event_type])
          => fcall'.result]_vars

\* Lock accepted at 0, a Lock closer than the interval rejected, Lock
\* accepted again at 5 with the 5 s interval
C36_Witness ==
    /\ fcall.event_type = "lock"
    /\ min_interval = DefaultIntervals
    /\ enabled_events = EventType
    /\ DOMAIN last_event_time = {"lock"}
    /\ fcall.prior = 0
    /\ fcall.event_time = LockInterval
    /\ fcall.gap >= 1
    /\ fcall.result

\* C37: the break minutes of a closed session hold only lock time of that
\* session: a session with no Lock between its Startup and its Shutdown has
\* 0 break minutes, and one with a single Lock and Unlock has at most the
\* minutes between the two, whatever was locked before its Startup.
C37_BreakMinutesOfThisSession ==
    /\ (summary.closed /\ hist.shape = "SD") => summary.break_minutes = 0
    /\ (summary.closed /\ hist.shape = "SLUD") =>
          summary.break_minutes <= TruncDiv(hist.unlock - hist.lock, SecondsPerMinute)

\* C38: after a session close whose create or update call succeeded, the
\* record stored for the session's date has the closing summary's
\* work_minutes as its duration and its overtime_minutes as its overtime.
C38_StoredRecordIsSummary ==
    [][(result'.closed /\ result'.calls # <<>>)
       => LET rec == time_records'[DateOf(enh_session_start)]
          IN  /\ rec.duration = result'.work_minutes
              /\ rec.overtime_duration = result'.overtime_minutes]_vars

====
